---- MODULE Spec2Model ----
(***************************************************************************)
(* Model of gatsby/node/createPages.js of gatsby-theme-novela: the utility *)
(* functions buildPaginatedPath, slugify and getUniqueListBy, and the      *)
(* createPages build pass (query the sources, aggregate, register pages).  *)
(*                                                                         *)
(* A JavaScript string is modelled as a sequence of characters, each       *)
(* character a one-element TLA+ string.  "E^" and "e^" stand for the       *)
(* precomposed letters U+00C9 and U+00E9, "^" for the combining acute      *)
(* accent U+0301.                                                          *)
(***************************************************************************)
EXTENDS Integers, Sequences, FiniteSets, TLC

VARIABLES pc, options, source, dataSources, articles, authors,
          articlesThatArentSecret, index, pages, logged, thrown, call, ret

vars == <<pc, options, source, dataSources, articles, authors,
          articlesThatArentSecret, index, pages, logged, thrown, call, ret>>

buildVars == <<options, source, dataSources, articles, authors,
               articlesThatArentSecret, index, pages, logged, thrown>>

(***************************************************************************)
(* Bounds of the model.                                                    *)
(***************************************************************************)
\* longest string handed to slugify
MaxStrLen == 4
\* largest page index handed to buildPaginatedPath
MaxIndex == 12
\* longest author list one source returns
MaxAuthors == 2
\* longest article list one source returns when the articles' fields vary
MaxSourceArticles == 2
\* longest aggregated article list when only its length varies
MaxArticles == 4

(***************************************************************************)
(* JavaScript values.                                                      *)
(***************************************************************************)
\* undefined: a field a record does not have
Undefined == <<"undefined">>

\* the value of a variable that holds nothing yet
None == <<"none">>

\* no error has been thrown
NotThrown == [kind |-> "none"]

\* no utility function is being called
NoCall == [fn |-> "none"]

(***************************************************************************)
(* String primitives.                                                      *)
(***************************************************************************)
UpperChars == <<"A", "B", "J", "E^">>
LowerChars == <<"a", "b", "j", "e^">>

\* String.prototype.toLowerCase, one character
ToLowerChar(c) ==
  IF \E i \in 1..Len(UpperChars) : UpperChars[i] = c
  THEN LowerChars[CHOOSE i \in 1..Len(UpperChars) : UpperChars[i] = c]
  ELSE c

\* String.prototype.toLowerCase
toLowerCase(s) == [i \in 1..Len(s) |-> ToLowerChar(s[i])]

\* the characters the class [a-z0-9] holds, among those the model uses
AlnumChars == {"a", "b", "e", "j", "l", "o", "1", "2"}

\* the digits of template-literal number formatting
Digits == <<"0", "1", "2", "3", "4", "5", "6", "7", "8", "9">>

RECURSIVE NatToString(_)
\* `${n}` for an integer n >= 0
NatToString(n) ==
  IF n < 10 THEN <<Digits[n + 1]>>
  ELSE NatToString(n \div 10) \o <<Digits[(n % 10) + 1]>>

\* `${n}` for an integer n
NumberToString(n) == IF n < 0 THEN <<"-">> \o NatToString(-n) ELSE NatToString(n)

\* String.prototype.includes
includes(s, t) ==
  \E i \in 0..(Len(s) - Len(t)) : SubSeq(s, i + 1, i + Len(t)) = t

RECURSIVE split(_, _)
\* String.prototype.split on a one-character separator
split(s, sep) ==
  IF \A i \in 1..Len(s) : s[i] # sep THEN <<s>>
  ELSE LET k == CHOOSE i \in 1..Len(s) :
                   s[i] = sep /\ \A j \in 1..(i - 1) : s[j] # sep
       IN <<SubSeq(s, 1, k - 1)>> \o split(SubSeq(s, k + 1, Len(s)), sep)

RECURSIVE trimStart(_)
trimStart(s) == IF s # <<>> /\ Head(s) = " " THEN trimStart(Tail(s)) ELSE s

RECURSIVE trimEnd(_)
trimEnd(s) ==
  IF s # <<>> /\ s[Len(s)] = " " THEN trimEnd(SubSeq(s, 1, Len(s) - 1)) ELSE s

\* String.prototype.trim
trim(s) == trimEnd(trimStart(s))

(***************************************************************************)
(* buildPaginatedPath (lines 22-27).                                       *)
(***************************************************************************)
PageSegment == <<"p", "a", "g", "e", "/">>

buildPaginatedPath(idx, basePath) ==
  IF basePath = <<"/">>
  THEN IF idx > 1 THEN basePath \o PageSegment \o NumberToString(idx)
       ELSE basePath
  ELSE IF idx > 1 THEN basePath \o <<"/">> \o PageSegment \o NumberToString(idx)
       ELSE basePath

(***************************************************************************)
(* slugify (lines 29-38).                                                  *)
(***************************************************************************)
\* canonical decomposition of one character
DecomposeChar(c) ==
  IF c = "e^" THEN <<"e", "^">>
  ELSE IF c = "E^" THEN <<"E", "^">>
  ELSE <<c>>

RECURSIVE normalizeNFD(_)
\* String.prototype.normalize("NFD")
normalizeNFD(s) ==
  IF s = <<>> THEN <<>> ELSE DecomposeChar(Head(s)) \o normalizeNFD(Tail(s))

\* .replace(/[\u0300-\u036f]/g, "")
stripCombining(s) == SelectSeq(s, LAMBDA c : c # "^")

RECURSIVE replaceNonAlnum(_)
\* .replace(/[^a-z0-9]+/g, "-")
replaceNonAlnum(s) ==
  IF s = <<>> THEN <<>>
  ELSE IF Head(s) \in AlnumChars THEN <<Head(s)>> \o replaceNonAlnum(Tail(s))
  ELSE IF Len(s) > 1 /\ s[2] \notin AlnumChars THEN replaceNonAlnum(Tail(s))
  ELSE <<"-">> \o replaceNonAlnum(Tail(s))

\* a slip: the hyphen at the end is left in place
trimHyphens_LeadingOnly(s) == IF s # <<>> /\ Head(s) = "-" THEN Tail(s) ELSE s

\* .replace(/(^-|-$)+/g, "")
trimHyphens(s) ==
  LET t == IF s # <<>> /\ Head(s) = "-" THEN Tail(s) ELSE s
  IN IF t # <<>> /\ t[Len(t)] = "-" THEN SubSeq(t, 1, Len(t) - 1) ELSE t

RECURSIVE collapseSlashes(_)
\* .replace(/\/\/+/g, "/")
collapseSlashes(s) ==
  IF Len(s) < 2 THEN s
  ELSE IF s[1] = "/" /\ s[2] = "/" THEN collapseSlashes(Tail(s))
  ELSE <<Head(s)>> \o collapseSlashes(Tail(s))

\* the slug segment (lines 30-35)
slugOf(str) ==
  trimHyphens(replaceNonAlnum(stripCombining(normalizeNFD(toLowerCase(str)))))

slugify(str, base) == collapseSlashes(base \o <<"/">> \o slugOf(str))

(***************************************************************************)
(* getUniqueListBy (lines 40-42): a Map keeps a key at the place of its    *)
(* first insertion and its value from the last.                            *)
(***************************************************************************)
\* a slip: a key already present keeps its first value
mapSet_FirstWins(values, item, key) ==
  IF \E j \in 1..Len(values) : values[j][key] = item[key]
  THEN values
  ELSE Append(values, item)

\* Map.prototype.set on the list of the map's values
mapSet(values, item, key) ==
  IF \E j \in 1..Len(values) : values[j][key] = item[key]
  THEN [j \in 1..Len(values) |->
          IF values[j][key] = item[key] THEN item ELSE values[j]]
  ELSE Append(values, item)

RECURSIVE mapOf(_, _, _)
\* new Map(arr.map(item => [item[key], item])), entries added left to right
mapOf(values, arr, key) ==
  IF arr = <<>> THEN values
  ELSE mapOf(mapSet(values, Head(arr), key), Tail(arr), key)

getUniqueListBy(arr, key) == mapOf(<<>>, arr, key)

(***************************************************************************)
(* byDate (line 44) and Array.prototype.sort, which is stable.             *)
(***************************************************************************)
byDate(a, b) == b.dateForSEO - a.dateForSEO

RECURSIVE insertSorted(_, _)
\* x placed after every element it does not sort before
insertSorted(sorted, x) ==
  IF sorted = <<>> THEN <<x>>
  ELSE IF byDate(Head(sorted), x) > 0 THEN <<x>> \o sorted
  ELSE <<Head(sorted)>> \o insertSorted(Tail(sorted), x)

RECURSIVE sortByDate(_)
sortByDate(arr) ==
  IF arr = <<>> THEN <<>>
  ELSE insertSorted(sortByDate(SubSeq(arr, 1, Len(arr) - 1)), arr[Len(arr)])

\* Array.prototype.slice(start, end), indices from 0, end excluded
slice(arr, start, end) ==
  SubSeq(arr, start + 1, IF end < Len(arr) THEN end ELSE Len(arr))

(***************************************************************************)
(* Theme options (lines 49-59).                                            *)
(***************************************************************************)
DefaultBasePath == <<"/">>
DefaultAuthorsPath == <<"/", "a", "u", "t", "h", "o", "r", "s">>
DefaultPageLength == 6

(***************************************************************************)
(* The pieces of the build pass (lines 48-245).                            *)
(***************************************************************************)
\* where a source's try block can throw (lines 74-85, 92-103): at the first
\* await, at the second await, while reading or mapping the authors' result,
\* while reading or mapping the articles' result
FailModes == {"ok", "authorsQuery", "articlesQuery", "authorsMap", "articlesMap"}

\* what one source's try block leaves in dataSources (lines 74-88, 92-106)
sourceBlock(s) ==
  [authors  |-> IF s.fail \in {"ok", "articlesMap"} THEN s.authors ELSE <<>>,
   articles |-> IF s.fail = "ok" THEN s.articles ELSE <<>>]

\* a slip: nothing is filtered out
notSecret_All(arr) == arr

\* line 116
notSecret(arr) == SelectSeq(arr, LAMBDA article : ~article.secret)

\* a slip: the authors are not looked at
nothingToBuild_ArticlesOnly(arts, auths) == Len(arts) = 0

\* line 128
nothingToBuild(arts, auths) == Len(arts) = 0 \/ Len(auths) = 0

\* lines 170-174: the callback of authors.filter
wroteTheArticle(author, article) ==
  LET parts == split(article.author, ",")
      allAuthors == [i \in 1..Len(parts) |-> toLowerCase(trim(parts[i]))]
  IN \E i \in 1..Len(allAuthors) : allAuthors[i] = toLowerCase(author.name)

\* lines 169-175
authorsThatWroteTheArticle(auths, article) ==
  SelectSeq(auths, LAMBDA author : wroteTheArticle(author, article))

\* a slip: a single follower is padded whatever the length of the list
nextArticles_AlwaysPad(arts, idx) ==
  LET next0 == slice(arts, idx + 1, idx + 3)
      next1 == IF Len(next0) = 0 THEN slice(arts, 0, 2) ELSE next0
      next2 == IF Len(next1) = 1 THEN next1 \o <<arts[1]>> ELSE next1
  IN IF Len(arts) = 1 THEN <<>> ELSE next2

\* lines 190-196; idx counts from 0
nextArticles(arts, idx) ==
  LET next0 == slice(arts, idx + 1, idx + 3)
      next1 == IF Len(next0) = 0 THEN slice(arts, 0, 2) ELSE next0
      next2 == IF Len(next1) = 1 /\ Len(arts) # 2
               THEN next1 \o <<arts[1]>> ELSE next1
  IN IF Len(arts) = 1 THEN <<>> ELSE next2

\* lines 222-226
articlesTheAuthorHasWritten(arts, author) ==
  notSecret(SelectSeq(arts, LAMBDA article :
      includes(toLowerCase(article.author), toLowerCase(author.name))))

(***************************************************************************)
(* Inputs: what the sources hold and the options of the theme.             *)
(***************************************************************************)
Jo == <<"J", "o">>
JoLower == <<"j", "o">>
Joe == <<"J", "o", "e">>
Al == <<"A", "l">>
JoAndJoe == <<"j", "o", ",", " ", "J", "o", "e">>

Author(name, slug) == [name |-> name, slug |-> slug]

AuthorPool == {Author(Jo, <<"/", "j", "o">>), Author(Jo, <<"/", "J", " ", "o", "e">>),
               Author(JoLower, <<"/", "j", "o">>), Author(Joe, <<"/", "J", " ", "o", "e">>)}

\* the author field of an article: a comma-separated list of names, or missing
AuthorFields == {Jo, JoAndJoe, Joe, Al, Undefined}

Article(id, author, date, secret) ==
  [id |-> id, title |-> <<"T">> \o NumberToString(id),
   slug |-> <<"/">> \o NumberToString(id), author |-> author,
   dateForSEO |-> date, secret |-> secret]

SeqsUpTo(S, n) == UNION {[1..k -> S] : k \in 0..n}

\* the local source's record k has id k, the contentful source's this one
ContentfulId(k) == 100 + k

Options(authorsPage, local, contentful) ==
  [basePath |-> DefaultBasePath, authorsPath |-> DefaultAuthorsPath,
   authorsPage |-> authorsPage, pageLength |-> DefaultPageLength,
   local |-> local, contentful |-> contentful, mailchimp |-> <<>>]

Source(auths, arts, fail) == [authors |-> auths, articles |-> arts, fail |-> fail]

NoSource == Source(<<>>, <<>>, "ok")

\* both sources answer; the author lists vary
InputsAuthors ==
  {[options |-> Options(TRUE, TRUE, TRUE),
    local |-> Source(la, <<Article(1, JoAndJoe, 1, FALSE)>>, "ok"),
    contentful |-> Source(ca, <<>>, "ok")] :
     la \in SeqsUpTo(AuthorPool, MaxAuthors), ca \in SeqsUpTo(AuthorPool, MaxAuthors)}

\* both sources answer; the articles' fields vary
InputsArticles ==
  {[options |-> Options(ap, TRUE, TRUE),
    local |-> Source(<<Author(Jo, <<"/", "j", "o">>)>>,
                     [k \in 1..Len(lf) |-> Article(k, lf[k][1], 1, lf[k][2])], "ok"),
    contentful |-> Source(<<Author(Joe, <<"/", "J", " ", "o", "e">>)>>,
                          [k \in 1..Len(cf) |->
                             Article(ContentfulId(k), cf[k][1], cf[k][2], cf[k][3])],
                          "ok")] :
     ap \in BOOLEAN,
     lf \in SeqsUpTo(AuthorFields \X BOOLEAN, MaxSourceArticles),
     cf \in SeqsUpTo(AuthorFields \X (1..2) \X BOOLEAN, 1)}

\* sources switched on or off, holding something or nothing, failing or not
InputsFailures ==
  {[options |-> Options(ap, lo, co),
    local |-> IF lo THEN Source(la, lr, lfail) ELSE NoSource,
    contentful |-> IF co THEN Source(ca, cr, cfail) ELSE NoSource] :
     ap \in BOOLEAN, lo \in BOOLEAN, co \in BOOLEAN,
     la \in {<<>>, <<Author(Jo, <<"/", "j", "o">>)>>},
     lr \in {<<>>, <<Article(1, Jo, 1, FALSE)>>},
     lfail \in FailModes,
     ca \in {<<>>, <<Author(Joe, <<"/", "J", " ", "o", "e">>)>>},
     cr \in {<<>>, <<Article(ContentfulId(1), Joe, 2, TRUE)>>},
     cfail \in FailModes}

\* n articles by one author, the first k of them local; only the length varies
InputsLong ==
  UNION {{[options |-> Options(ap, TRUE, TRUE),
    local |-> Source(<<Author(Jo, <<"/", "j", "o">>)>>,
                     [i \in 1..k |-> Article(i, Jo, IF desc THEN n - i ELSE 1, FALSE)],
                     "ok"),
    contentful |-> Source(<<>>,
                     [i \in 1..(n - k) |->
                        Article(ContentfulId(i), Jo,
                                IF desc THEN n - k - i ELSE 1, FALSE)],
                     "ok")] :
     ap \in BOOLEAN, desc \in BOOLEAN, k \in 0..n} : n \in 0..MaxArticles}

Inputs == InputsAuthors \cup InputsArticles \cup InputsFailures \cup InputsLong

BasePaths == {<<"/">>, <<>>, <<"/", "b">>, <<"/", "b", "/">>, <<"/", "a", "/", "b">>}

SlugAlphabet == {"a", "B", "1", "-", " ", "/", "E^"}

SlugBases == {<<>>, <<"/">>, <<"/", "a">>, <<"/", "a", "/">>, <<"/", "/", "a">>}

PathCalls ==
  [fn : {"buildPaginatedPath"}, index : (-1)..MaxIndex, basePath : BasePaths]

SlugCalls ==
  [fn : {"slugify"}, str : SeqsUpTo(SlugAlphabet, MaxStrLen), base : SlugBases]

(***************************************************************************)
(* The state machine.                                                      *)
(***************************************************************************)
NoData == [authors |-> <<>>, articles |-> <<>>]

\* lines 61-68: the state of a build pass before its first query
InitBuild ==
  \E in \in Inputs :
    /\ pc = "local"
    /\ options = in.options
    /\ source = [local |-> in.local, contentful |-> in.contentful]
    /\ dataSources = [local |-> NoData, contentful |-> NoData, netlify |-> NoData]
    /\ articles = <<>>
    /\ authors = <<>>
    /\ articlesThatArentSecret = <<>>
    /\ index = 0
    /\ pages = <<>>
    /\ logged = <<>>
    /\ thrown = NotThrown
    /\ call = NoCall
    /\ ret = None

\* a call of one of the utility functions
InitCall ==
  /\ pc = "call"
  /\ options = Options(TRUE, TRUE, FALSE)
  /\ source = [local |-> NoSource, contentful |-> NoSource]
  /\ dataSources = [local |-> NoData, contentful |-> NoData, netlify |-> NoData]
  /\ articles = <<>>
  /\ authors = <<>>
  /\ articlesThatArentSecret = <<>>
  /\ index = 0
  /\ pages = <<>>
  /\ logged = <<>>
  /\ thrown = NotThrown
  /\ call \in PathCalls \cup SlugCalls
  /\ ret = None

Init == InitBuild \/ InitCall

\* lines 73-89
LocalSource ==
  /\ pc = "local"
  /\ pc' = "contentful"
  /\ IF options.local
     THEN /\ dataSources' = [dataSources EXCEPT !.local = sourceBlock(source.local)]
          /\ logged' = IF source.local.fail # "ok"
                       THEN Append(logged, "local") ELSE logged
     ELSE UNCHANGED <<dataSources, logged>>
  /\ UNCHANGED <<options, source, articles, authors, articlesThatArentSecret,
                 index, pages, thrown, call, ret>>

\* lines 91-107
ContentfulSource ==
  /\ pc = "contentful"
  /\ pc' = "aggregate"
  /\ IF options.contentful
     THEN /\ dataSources' =
               [dataSources EXCEPT !.contentful = sourceBlock(source.contentful)]
          /\ logged' = IF source.contentful.fail # "ok"
                       THEN Append(logged, "contentful") ELSE logged
     ELSE UNCHANGED <<dataSources, logged>>
  /\ UNCHANGED <<options, source, articles, authors, articlesThatArentSecret,
                 index, pages, thrown, call, ret>>

\* lines 109-134
Aggregate ==
  /\ pc = "aggregate"
  /\ articles' = sortByDate(dataSources.local.articles
                            \o dataSources.contentful.articles
                            \o dataSources.netlify.articles)
  /\ articlesThatArentSecret' = notSecret(articles')
  /\ authors' = getUniqueListBy(dataSources.local.authors
                                \o dataSources.contentful.authors
                                \o dataSources.netlify.authors, "name")
  /\ IF nothingToBuild(articles', authors')
     THEN /\ thrown' = [kind |-> "NoAuthorOrPost"]
          /\ pc' = "failed"
     ELSE /\ thrown' = thrown
          /\ pc' = "articlesPage"
  /\ UNCHANGED <<options, source, dataSources, index, pages, logged, call, ret>>

\* lines 144-158
CreateArticlesPage ==
  /\ pc = "articlesPage"
  /\ pages' = Append(pages,
       [kind |-> "paginated", edges |-> articlesThatArentSecret,
        pathPrefix |-> options.basePath, pageLength |-> options.pageLength,
        pageTemplate |-> "articles",
        context |-> [authors |-> authors, basePath |-> options.basePath,
                     skip |-> options.pageLength, limit |-> options.pageLength]])
  /\ index' = 0
  /\ pc' = "articlePosts"
  /\ UNCHANGED <<options, source, dataSources, articles, authors,
                 articlesThatArentSecret, logged, thrown, call, ret>>

\* lines 165-212: one turn of articles.forEach
CreateArticlePost ==
  /\ pc = "articlePosts"
  /\ LET article == articles[index + 1]
     IN IF article.author = Undefined
        THEN \* article.author.split throws a TypeError, caught at line 176
             /\ thrown' = [kind |-> "AuthorNotFound", title |-> article.title,
                           provided |-> article.author]
             /\ pc' = "failed"
             /\ UNCHANGED <<pages, index>>
        ELSE /\ pages' = Append(pages,
                  [kind |-> "page", path |-> article.slug, component |-> "article",
                   context |-> [article |-> article,
                                authors |-> authorsThatWroteTheArticle(authors, article),
                                basePath |-> options.basePath,
                                slug |-> article.slug, id |-> article.id,
                                title |-> article.title,
                                mailchimp |-> options.mailchimp,
                                next |-> nextArticles(articles, index)]])
             /\ thrown' = thrown
             /\ IF index + 1 < Len(articles)
                THEN /\ index' = index + 1
                     /\ pc' = pc
                ELSE /\ index' = 0
                     /\ pc' = IF options.authorsPage THEN "authorPages" ELSE "done"
  /\ UNCHANGED <<options, source, dataSources, articles, authors,
                 articlesThatArentSecret, logged, call, ret>>

\* lines 218-243: one turn of authors.forEach
CreateAuthorPage ==
  /\ pc = "authorPages"
  /\ LET author == authors[index + 1]
         path == slugify(author.slug, options.authorsPath)
     IN pages' = Append(pages,
          [kind |-> "paginated",
           edges |-> articlesTheAuthorHasWritten(articles, author),
           pathPrefix |-> author.slug, pageLength |-> options.pageLength,
           pageTemplate |-> "author",
           context |-> [author |-> author, originalPath |-> path,
                        skip |-> options.pageLength, limit |-> options.pageLength]])
  /\ IF index + 1 < Len(authors)
     THEN /\ index' = index + 1
          /\ pc' = pc
     ELSE /\ index' = 0
          /\ pc' = "done"
  /\ UNCHANGED <<options, source, dataSources, articles, authors,
                 articlesThatArentSecret, logged, thrown, call, ret>>

\* lines 22-27
CallBuildPaginatedPath ==
  /\ pc = "call"
  /\ call.fn = "buildPaginatedPath"
  /\ ret' = buildPaginatedPath(call.index, call.basePath)
  /\ pc' = "returned"
  /\ UNCHANGED <<buildVars, call>>

\* lines 29-38
CallSlugify ==
  /\ pc = "call"
  /\ call.fn = "slugify"
  /\ ret' = slugify(call.str, call.base)
  /\ pc' = "returned"
  /\ UNCHANGED <<buildVars, call>>

Next ==
  \/ LocalSource
  \/ ContentfulSource
  \/ Aggregate
  \/ CreateArticlesPage
  \/ CreateArticlePost
  \/ CreateAuthorPage
  \/ CallBuildPaginatedPath
  \/ CallSlugify

Spec == Init /\ [][Next]_vars

(***************************************************************************)
(* Vocabulary of the properties.                                           *)
(***************************************************************************)
\* the aggregation (lines 109-126) has run
Aggregated == pc \in {"articlesPage", "articlePosts", "authorPages", "done", "failed"}

\* the build pass ran to its end without throwing
Succeeded == pc = "done"

\* the createPage calls made for article pages (line 198)
ArticlePageCalls == {p \in 1..Len(pages) : pages[p].kind = "page"}

\* the createPaginatedPages calls (lines 145, 229)
ListingCalls == {p \in 1..Len(pages) : pages[p].kind = "paginated"}

\* the place of a registered article page's article in the aggregated list
PlaceOf(p) == CHOOSE j \in 1..Len(articles) : articles[j].id = pages[p].context.id

Ids(arr) == [k \in 1..Len(arr) |-> arr[k].id]

Elems(arr) == {arr[k] : k \in 1..Len(arr)}

\* the authors merged in the order of lines 120-124
MergedAuthors ==
  dataSources.local.authors \o dataSources.contentful.authors
    \o dataSources.netlify.authors

\* the article's author string names no known author
Unresolved(article) ==
  \/ article.author = Undefined
  \/ \A a \in 1..Len(authors) : ~wroteTheArticle(authors[a], article)

(***************************************************************************)
(* C1                                                                      *)
(***************************************************************************)
\* the suggestion the rule gives the article at place j (from 1) of n
ExpectedNext(j) ==
  LET n == Len(articles)
  IN IF n = 1 THEN <<>>
     ELSE IF j = n THEN <<articles[1], articles[2]>>
     ELSE IF j = n - 1
          THEN IF n = 2 THEN <<articles[n]>> ELSE <<articles[n], articles[1]>>
     ELSE <<articles[j + 1], articles[j + 2]>>

\* C1: the "next" suggestion registered for the article at index i is the
\* up-to-2 articles that follow it; the first 2 articles when none follows;
\* the one that follows and then the first article when exactly one follows
\* and the list is not of length 2; and empty when the list holds 1 article.
C1_NextSelection ==
  \A p \in ArticlePageCalls : pages[p].context.next = ExpectedNext(PlaceOf(p))

\* of 4 articles, the third is registered with the fourth and the first
C1_Witness ==
  /\ Len(articles) = 4
  /\ \E p \in ArticlePageCalls :
       /\ PlaceOf(p) = 3
       /\ pages[p].context.next = <<articles[4], articles[1]>>
  /\ \E p \in ArticlePageCalls : PlaceOf(p) = 4

(***************************************************************************)
(* C2                                                                      *)
(***************************************************************************)
\* C2: an aggregated article whose author string matches no aggregated
\* author makes the build throw, and no article page is registered for it.
C2_UnresolvedAuthorIsFatal ==
  Aggregated =>
    \A j \in 1..Len(articles) :
      Unresolved(articles[j]) =>
        /\ ~Succeeded
        /\ \A p \in ArticlePageCalls : pages[p].context.id # articles[j].id

(***************************************************************************)
(* C3                                                                      *)
(***************************************************************************)
\* C3: after aggregation the build has thrown the "at least one Author and
\* Post" error exactly when the article list or the author list is empty,
\* and then it has halted with no page registered.
C3_EmptyIsFatal ==
  Aggregated =>
    /\ (articles = <<>> \/ authors = <<>>) <=> thrown.kind = "NoAuthorOrPost"
    /\ thrown.kind = "NoAuthorOrPost" => pc = "failed" /\ pages = <<>>

\* articles exist, no author does, and the build has thrown
C3_Witness ==
  /\ pc = "failed"
  /\ articles # <<>>
  /\ authors = <<>>
  /\ thrown.kind = "NoAuthorOrPost"
  /\ pages = <<>>

(***************************************************************************)
(* C4                                                                      *)
(***************************************************************************)
\* C4: once the sources' blocks have run, an enabled source any step of
\* which failed has had its error logged and contributes no authors and no
\* articles, and the build has gone on to aggregation.
C4_FailedSourceIsEmpty ==
  pc = "aggregate" =>
    /\ options.local /\ source.local.fail # "ok" =>
         /\ \E k \in 1..Len(logged) : logged[k] = "local"
         /\ dataSources.local = NoData
    /\ options.contentful /\ source.contentful.fail # "ok" =>
         /\ \E k \in 1..Len(logged) : logged[k] = "contentful"
         /\ dataSources.contentful = NoData

(***************************************************************************)
(* C5                                                                      *)
(***************************************************************************)
\* C5: the aggregated author list holds exactly one author per distinct name
\* of the merged list (names compared as they are written), and the record
\* kept for a name is the last one of that name in merged order.
C5_UniqueLastWins ==
  Aggregated =>
    /\ \A a, b \in 1..Len(authors) : authors[a].name = authors[b].name => a = b
    /\ {authors[a].name : a \in 1..Len(authors)}
         = {MergedAuthors[m].name : m \in 1..Len(MergedAuthors)}
    /\ \A a \in 1..Len(authors) :
         \E m \in 1..Len(MergedAuthors) :
           /\ MergedAuthors[m] = authors[a]
           /\ \A l \in (m + 1)..Len(MergedAuthors) :
                MergedAuthors[l].name # authors[a].name

\* a contentful author replaced a different local record of the same name,
\* while a name differing only in case stayed a separate author
C5_Witness ==
  /\ Aggregated
  /\ \E l \in 1..Len(dataSources.local.authors) :
     \E c \in 1..Len(dataSources.contentful.authors) :
       /\ dataSources.local.authors[l].name = dataSources.contentful.authors[c].name
       /\ dataSources.local.authors[l] # dataSources.contentful.authors[c]
       /\ dataSources.contentful.authors[c] \in Elems(authors)
       /\ dataSources.local.authors[l] \notin Elems(authors)
  /\ \E a, b \in 1..Len(authors) :
       /\ a # b
       /\ toLowerCase(authors[a].name) = toLowerCase(authors[b].name)

(***************************************************************************)
(* C6                                                                      *)
(***************************************************************************)
\* the places where a string holds two slashes in a row
DoubledSlashes(s) == {i \in 1..(Len(s) - 1) : s[i] = "/" /\ s[i + 1] = "/"}

\* C6: buildPaginatedPath gives basePath for an index <= 1; for an index
\* n > 1 it gives "/page/{n}" on the base path "/" and basePath followed by
\* "/page/{n}" on any other; and the page segment never adds a doubled slash.
C6_PaginatedPath ==
  pc = "returned" /\ call.fn = "buildPaginatedPath" =>
    /\ call.index <= 1 => ret = call.basePath
    /\ call.index > 1 /\ call.basePath = <<"/">> =>
         ret = <<"/", "p", "a", "g", "e", "/">> \o NumberToString(call.index)
    /\ call.index > 1 /\ call.basePath # <<"/">> =>
         ret = call.basePath \o <<"/", "p", "a", "g", "e", "/">>
                 \o NumberToString(call.index)
    /\ Cardinality(DoubledSlashes(ret)) = Cardinality(DoubledSlashes(call.basePath))

(***************************************************************************)
(* C7                                                                      *)
(***************************************************************************)
\* C7: in a successful build no listing, main or author's, holds a secret
\* article among its edges, and every aggregated article, secret or not,
\* has exactly one article page, registered at its own slug.
C7_SecretOnlyByPath ==
  Succeeded =>
    /\ \A p \in ListingCalls :
         \A e \in 1..Len(pages[p].edges) : ~pages[p].edges[e].secret
    /\ \A j \in 1..Len(articles) :
         /\ Cardinality({p \in ArticlePageCalls :
                           pages[p].context.article = articles[j]}) = 1
         /\ \A p \in ArticlePageCalls :
              pages[p].context.article = articles[j] =>
                pages[p].path = articles[j].slug

\* a successful build with a secret and a public article by a known author,
\* and author listings registered
C7_Witness ==
  /\ Succeeded
  /\ options.authorsPage
  /\ \E j, k \in 1..Len(articles) :
       /\ articles[j].secret
       /\ ~articles[k].secret
       /\ ~Unresolved(articles[j])
       /\ \E p \in ArticlePageCalls : pages[p].path = articles[j].slug
  /\ \E p \in ListingCalls :
       pages[p].pageTemplate = "author" /\ pages[p].edges # <<>>

(***************************************************************************)
(* C8                                                                      *)
(***************************************************************************)
\* what follows the last slash of a path
LastSegment(path) ==
  LET slashes == {i \in 1..Len(path) : path[i] = "/"}
      last == IF slashes = {} THEN 0
              ELSE CHOOSE i \in slashes : \A k \in slashes : k <= i
  IN SubSeq(path, last + 1, Len(path))

\* a character of the input as a lowercase letter or digit, or as a hyphen
\* when it is neither
WordChar(c) ==
  IF c \in {"a", "1"} THEN c
  ELSE IF c = "B" THEN "b"
  ELSE IF c = "E^" THEN "e"
  ELSE "-"

RECURSIVE JoinWords(_)
JoinWords(words) ==
  IF words = <<>> THEN <<>>
  ELSE IF Len(words) = 1 THEN words[1]
  ELSE words[1] \o <<"-">> \o JoinWords(Tail(words))

\* the alphanumeric words of the input joined by single hyphens
ExpectedSlug(str) ==
  JoinWords(SelectSeq(split([i \in 1..Len(str) |-> WordChar(str[i])], "-"),
                      LAMBDA w : w # <<>>))

\* C8: the slug slugify appends holds only lowercase letters, digits and
\* single hyphens, one hyphen for each run of other characters of the
\* input, none of them leading or trailing; and the path returned holds no
\* two slashes in a row.
C8_Slugify ==
  pc = "returned" /\ call.fn = "slugify" =>
    LET seg == LastSegment(ret)
    IN /\ \A i \in 1..Len(seg) : seg[i] \in {"a", "b", "e", "1", "-"}
       /\ \A i \in 1..(Len(seg) - 1) : ~(seg[i] = "-" /\ seg[i + 1] = "-")
       /\ seg # <<>> => seg[1] # "-" /\ seg[Len(seg)] # "-"
       /\ seg = ExpectedSlug(call.str)
       /\ DoubledSlashes(ret) = {}
       /\ ret = <<>> \/ ret[Len(ret) - Len(seg)] = "/"

\* a string that starts with a hyphen run, holds an accented capital and an
\* inner run of two separators, slugified onto a base that ends in a slash
C8_Witness ==
  /\ pc = "returned"
  /\ call.fn = "slugify"
  /\ call.str = <<" ", "E^", "/", " ">>
  /\ call.base = <<"/", "a", "/">>
  /\ ret = <<"/", "a", "/", "e">>

(***************************************************************************)
(* C9                                                                      *)
(***************************************************************************)
\* C9: the "next" suggestion registered for an article has at most 2
\* entries, holds no article twice and never holds the article itself.
C9_NextIsOthers ==
  \A p \in ArticlePageCalls :
    LET next == pages[p].context.next
    IN /\ Len(next) <= 2
       /\ \A a, b \in 1..Len(next) : next[a].id = next[b].id => a = b
       /\ \A a \in 1..Len(next) : next[a].id # pages[p].context.id

(***************************************************************************)
(* C10                                                                     *)
(***************************************************************************)
\* C10: in a successful build with author pages, a non-secret article is
\* among the edges of an author's listing exactly when that author is among
\* the authors in the context of the article's page.
C10_AssociationAgrees ==
  Succeeded /\ options.authorsPage =>
    \A l \in ListingCalls : \A p \in ArticlePageCalls :
      pages[l].pageTemplate = "author" /\ ~pages[p].context.article.secret =>
        (pages[p].context.article \in Elems(pages[l].edges)
           <=> pages[l].context.author \in Elems(pages[p].context.authors))

====
